---- MODULE Spec2Model ----
(***************************************************************************)
(* Model of the two export jobs of AltunSlackExporter:                     *)
(*   ExportReplies.py               the resumable reply-export job         *)
(*   ExportThreadWithoutReplies.py  the channel listing of thread roots    *)
(* The variable job says which of the two programs a behaviour runs.       *)
(***************************************************************************)
EXTENDS Integers, Sequences, FiniteSets, TLC

(* ------------------------------ bounds -------------------------------- *)
MaxThreads == 2
MaxPages == 2
MaxPageLen == 1
MaxRuns == 2

(* ------------------------- program constants -------------------------- *)
FallbackWait == 10
InterPageDelay == 1

\* response, presp and wait_time hold a value only while the code can still
\* read it: a later request or sleep overwrites them before any use.
VARIABLES
    job,            \* "replies" or "threads": the program that runs
    pc,             \* position of the running process
    runs,           \* number of invocations of main so far
    run_kind,       \* how this invocation relates to the earlier ones
    threads_json,   \* durable: threads.json
    progress_json,  \* durable: progress.json
    replies_json,   \* durable: replies.json
    remote,         \* remote state: the pages of each listing, as served
    thread_ts_list, \* ExportReplies.main: local thread_ts_list
    start_index,    \* ExportReplies.main: local start_index
    replies_data,   \* ExportReplies.main: local replies_data
    i,              \* ExportReplies.main: loop index of the for loop
    cursor,         \* cursor of the next request (params['cursor'] / cursor)
    response,       \* the response of the last HTTP call
    wait_time,      \* duration of the last time.sleep
    run_base,       \* history: the records replies.json held when main began
    collected,      \* history: what the last fetch of each unit collected
    all_threads,    \* fetch_only_thread_messages: local all_threads
    msg_idx,        \* fetch_only_thread_messages: position in `for message`
    presp           \* get_permalink_for_message: its last response

vars == <<job, pc, runs, run_kind, threads_json, progress_json, replies_json,
          remote, thread_ts_list, start_index, replies_data, i, cursor,
          response, wait_time, run_base, collected, all_threads, msg_idx,
          presp>>

durable == <<threads_json, progress_json, replies_json>>
replyMem == <<thread_ts_list, start_index, replies_data, i>>
threadMem == <<all_threads, msg_idx, presp>>

(* ------------------------------ values -------------------------------- *)
NoTs == 0          \* a missing or empty 'ts' / 'thread_ts' (falsy in Python)
NoCursor == 0      \* a missing or empty next_cursor (falsy in Python)
NoHeader == <<>>   \* no Retry-After header (headers.get gives None)

\* Retry-After header values, as digit strings
RetryAfterHeaders == {<<3>>, <<1, 2>>}

RECURSIVE ParseInt(_)
\* Python int(s) of a string of decimal digits
ParseInt(s) ==
    IF s = <<>> THEN 0
    ELSE 10 * ParseInt(SubSeq(s, 1, Len(s) - 1)) + s[Len(s)]

Range(s) == {s[k] : k \in 1..Len(s)}

RECURSIVE Concat(_)
\* the concatenation of a sequence of sequences
Concat(ss) == IF ss = <<>> THEN <<>> ELSE Head(ss) \o Concat(Tail(ss))

IsPrefix(s, t) == Len(s) <= Len(t) /\ SubSeq(t, 1, Len(s)) = s

(* ------------------------------ files --------------------------------- *)
\* A file is absent, corrupt (open(..., "w") has truncated it and the dump
\* has not reached the disk: json.load raises JSONDecodeError) or valid.
AbsentFile(empty) == [st |-> "absent", data |-> empty]
CorruptFile(empty) == [st |-> "corrupt", data |-> empty]
ValidFile(d) == [st |-> "valid", data |-> d]


(* --------------------------- remote state ----------------------------- *)
\* HTTP responses: status, Retry-After header, and the JSON body's fields.
Response(status, h, ok, error, messages, nc) ==
    [status |-> status, retry_after |-> h, ok |-> ok, error |-> error,
     messages |-> messages, next_cursor |-> nc]

NoResponse == Response(0, NoHeader, FALSE, "", <<>>, NoCursor)

\* conversations.replies of thread t: message j of page p is the thread
\* root (ts = thread_ts), a reply (thread_ts set, ts differs) or a message
\* without thread_ts.
ReplyKinds == {"root", "reply", "plain"}

ReplyMessage(t, p, j, kind) ==
    CASE kind = "root"  -> [ts |-> t, thread_ts |-> t]
      [] kind = "reply" -> [ts |-> 100 * t + 10 * p + j, thread_ts |-> t]
      [] kind = "plain" -> [ts |-> 100 * t + 10 * p + j, thread_ts |-> NoTs]

ReplyPages(t, p) ==
    UNION {{[j \in 1..n |-> ReplyMessage(t, p, j, ks[j])] :
               ks \in [1..n -> ReplyKinds]} : n \in 0..MaxPageLen}

\* The cursor token k asks for the page after page k.  A page that was
\* served before is served again unchanged (the remote state does not
\* change during an export); a page served for the first time is chosen.
NextCursors(p) == IF p < MaxPages THEN {NoCursor, p} ELSE {NoCursor}

ServedPages(chain, c, contents) ==
    IF c + 1 <= Len(chain) THEN {chain[c + 1]}
    ELSE {[messages |-> m, next_cursor |-> nc] :
             m \in contents, nc \in NextCursors(c + 1)}

Remember(chain, c, page) ==
    IF c + 1 <= Len(chain) THEN chain ELSE Append(chain, page)

\* throttled and rejected responses
Throttle429 ==
    {Response(429, h, FALSE, "ratelimited", <<>>, NoCursor) :
        h \in RetryAfterHeaders \cup {NoHeader}}
RateLimited200 ==
    {Response(200, h, FALSE, "ratelimited", <<>>, NoCursor) :
        h \in RetryAfterHeaders \cup {NoHeader}}
SoftErrors == {Response(200, NoHeader, FALSE, "channel_not_found", <<>>, NoCursor)}

(* ------------------------ ExportReplies.main -------------------------- *)
RECURSIVE ReadThreadTs(_)
\* lines 50-56: the 'ts' values of threads.json that are truthy
ReadThreadTs(threads) ==
    IF threads = <<>> THEN <<>>
    ELSE (IF Head(threads).ts # NoTs THEN <<Head(threads).ts>> ELSE <<>>)
             \o ReadThreadTs(Tail(threads))

\* lines 59-66: the start index read from progress.json
LoadProgress(f) == IF f.st = "valid" THEN f.data ELSE 0

\* lines 69-76: the records read from replies.json
LoadReplies(f) == IF f.st = "valid" THEN f.data ELSE <<>>

\* lines 132-135: the replies among the messages of a page
IsReply(m) == m.thread_ts # NoTs /\ m.ts # m.thread_ts
\* a filter that forgets to skip the thread's main message
HasThreadTs(m) == m.thread_ts # NoTs
FilterRepliesKeepsRoot(messages) == SelectSeq(messages, HasThreadTs)
FilterReplies(messages) == SelectSeq(messages, IsReply)

t_ts == thread_ts_list[i + 1]

\* a load without the except clauses: the JSONDecodeError ends main
AfterLoadUncaught(pf, rf) ==
    IF pf.st = "corrupt" \/ rf.st = "corrupt" THEN "crashed" ELSE "r_for"
\* lines 62-66, 71-74: both except clauses catch JSONDecodeError, so main
\* goes on to the for loop whatever state the two files are in
AfterLoad(pf, rf) == "r_for"

\* lines 27-79: main starts, reads threads.json, progress.json, replies.json
LoadState ==
    /\ job = "replies" /\ pc = "r_start"
    /\ thread_ts_list' = ReadThreadTs(threads_json.data)
    /\ start_index' = LoadProgress(progress_json)
    /\ replies_data' = LoadReplies(replies_json)
    /\ run_base' = LoadReplies(replies_json)
    /\ i' = LoadProgress(progress_json)
    /\ pc' = AfterLoad(progress_json, replies_json)
    /\ UNCHANGED <<job, runs, run_kind, durable, remote, cursor, response,
                   wait_time, collected, threadMem>>

\* line 82 (and 88-90): the for loop takes the next thread, or ends
ForNext ==
    /\ job = "replies" /\ pc = "r_for"
    /\ i < Len(thread_ts_list)
    /\ cursor' = NoCursor
    /\ collected' = [collected EXCEPT ![i + 1] = <<>>]
    /\ pc' = "r_request"
    /\ UNCHANGED <<job, runs, run_kind, durable, remote, replyMem, response,
                   wait_time, run_base, threadMem>>

ForEnd ==
    /\ job = "replies" /\ pc = "r_for"
    /\ i >= Len(thread_ts_list)
    /\ pc' = "r_reset_open"
    /\ UNCHANGED <<job, runs, run_kind, durable, remote, replyMem, cursor,
                   response, wait_time, run_base, collected, threadMem>>

\* lines 93-101: requests.post returns a page of the thread's replies
PostPage ==
    /\ job = "replies" /\ pc = "r_request"
    /\ \E page \in ServedPages(remote.replies[t_ts], cursor,
                               ReplyPages(t_ts, cursor + 1)) :
          /\ response' = Response(200, NoHeader, TRUE, "", page.messages,
                                  page.next_cursor)
          /\ remote' = [remote EXCEPT !.replies[t_ts] =
                           Remember(@, cursor, page)]
    /\ pc' = "r_response"
    /\ UNCHANGED <<job, runs, run_kind, durable, replyMem, cursor, wait_time,
                   run_base, collected, threadMem>>

\* lines 93-101: requests.post returns a throttled or rejected response
PostRejected ==
    /\ job = "replies" /\ pc = "r_request"
    /\ \E r \in Throttle429 \cup RateLimited200 \cup SoftErrors :
          response' = r
    /\ pc' = "r_response"
    /\ UNCHANGED <<job, runs, run_kind, durable, remote, replyMem, cursor,
                   wait_time, run_base, collected, threadMem>>

\* line 101: requests.post raises (connection error); nothing catches it
PostRaises ==
    /\ job = "replies" /\ pc = "r_request"
    /\ pc' = "crashed"
    /\ UNCHANGED <<job, runs, run_kind, durable, remote, replyMem, cursor,
                   response, wait_time, run_base, collected, threadMem>>

\* lines 104-110: HTTP 429 with a Retry-After header: sleep, then retry
Handle429 ==
    /\ job = "replies" /\ pc = "r_response"
    /\ response.status = 429 /\ response.retry_after # NoHeader
    /\ wait_time' = ParseInt(response.retry_after)
    /\ pc' = "r_sleep"
    /\ UNCHANGED <<job, runs, run_kind, durable, remote, replyMem, cursor,
                   response, run_base, collected, threadMem>>

\* line 112 is reached: no 429, or a 429 without Retry-After
Parsed == ~(response.status = 429 /\ response.retry_after # NoHeader)

\* lines 115-122: ok is false, 'ratelimited', Retry-After present
HandleRateLimited ==
    /\ job = "replies" /\ pc = "r_response" /\ Parsed
    /\ ~response.ok /\ response.error = "ratelimited"
    /\ response.retry_after # NoHeader
    /\ wait_time' = ParseInt(response.retry_after)
    /\ pc' = "r_sleep"
    /\ UNCHANGED <<job, runs, run_kind, durable, remote, replyMem, cursor,
                   response, run_base, collected, threadMem>>

\* lines 123-125: ok is false, 'ratelimited', no Retry-After: break
HandleRateLimitedNoHeader ==
    /\ job = "replies" /\ pc = "r_response" /\ Parsed
    /\ ~response.ok /\ response.error = "ratelimited"
    /\ response.retry_after = NoHeader
    /\ pc' = "r_progress_open"
    /\ UNCHANGED <<job, runs, run_kind, durable, remote, replyMem, cursor,
                   response, wait_time, run_base, collected, threadMem>>

\* a break that leaves the index where it was: the replies are saved, the
\* unit is not counted as processed
HandleSoftErrorUncounted ==
    /\ job = "replies" /\ pc = "r_response" /\ Parsed
    /\ ~response.ok /\ response.error # "ratelimited"
    /\ pc' = "r_replies_open"
    /\ UNCHANGED <<job, runs, run_kind, durable, remote, replyMem, cursor,
                   response, wait_time, run_base, collected, threadMem>>

\* lines 126-128: ok is false for another reason: break
HandleSoftError ==
    /\ job = "replies" /\ pc = "r_response" /\ Parsed
    /\ ~response.ok /\ response.error # "ratelimited"
    /\ pc' = "r_progress_open"
    /\ UNCHANGED <<job, runs, run_kind, durable, remote, replyMem, cursor,
                   response, wait_time, run_base, collected, threadMem>>

\* a loop that never looks at next_cursor
MorePagesAlways(nc) == TRUE
\* lines 142-144: the loop goes on exactly when next_cursor is truthy
MorePages(nc) == nc # NoCursor

\* lines 130-144: a page: keep its replies, follow next_cursor or break
HandlePage ==
    /\ job = "replies" /\ pc = "r_response" /\ Parsed
    /\ response.ok
    /\ LET replies == FilterReplies(response.messages)
       IN /\ replies_data' = replies_data \o replies
          /\ collected' = [collected EXCEPT ![i + 1] = @ \o replies]
    /\ IF MorePages(response.next_cursor)
       THEN /\ cursor' = response.next_cursor
            /\ response' = NoResponse
            /\ pc' = "r_request"
       ELSE /\ cursor' = cursor
            /\ response' = response
            /\ pc' = "r_progress_open"
    /\ UNCHANGED <<job, runs, run_kind, durable, remote, thread_ts_list,
                   start_index, i, wait_time, run_base, threadMem>>

\* lines 109-110, 121-122: time.sleep returns, `continue` retries
WakeUp ==
    /\ job = "replies" /\ pc = "r_sleep"
    /\ pc' = "r_request"
    /\ response' = NoResponse /\ wait_time' = 0
    /\ UNCHANGED <<job, runs, run_kind, durable, remote, replyMem, cursor,
                   run_base, collected, threadMem>>

\* line 147: open(PROGRESS_FILE, "w") truncates progress.json
OpenProgress ==
    /\ job = "replies" /\ pc = "r_progress_open"
    /\ progress_json' = CorruptFile(0)
    /\ response' = NoResponse
    /\ pc' = "r_progress_write"
    /\ UNCHANGED <<job, runs, run_kind, threads_json, replies_json, remote,
                   replyMem, cursor, wait_time, run_base, collected,
                   threadMem>>

\* lines 147-149: {"last_processed_index": i + 1} reaches progress.json
WriteProgress ==
    /\ job = "replies" /\ pc = "r_progress_write"
    /\ progress_json' = ValidFile(i + 1)
    /\ pc' = "r_replies_open"
    /\ UNCHANGED <<job, runs, run_kind, threads_json, replies_json, remote,
                   replyMem, cursor, response, wait_time, run_base, collected,
                   threadMem>>

\* line 152: open(REPLIES_JSON, "w") truncates replies.json
OpenReplies ==
    /\ job = "replies" /\ pc = "r_replies_open"
    /\ replies_json' = CorruptFile(<<>>)
    /\ pc' = "r_replies_write"
    /\ UNCHANGED <<job, runs, run_kind, threads_json, progress_json, remote,
                   replyMem, cursor, response, wait_time, run_base, collected,
                   threadMem>>

\* a write of the unit's own replies in place of the accumulated list
WriteRepliesUnitOnly ==
    /\ job = "replies" /\ pc = "r_replies_write"
    /\ replies_json' = ValidFile(collected[i + 1])
    /\ i' = i + 1
    /\ pc' = "r_for"
    /\ UNCHANGED <<job, runs, run_kind, threads_json, progress_json, remote,
                   thread_ts_list, start_index, replies_data, cursor, response,
                   wait_time, run_base, collected, threadMem>>

\* lines 152-153: replies_data reaches replies.json; next iteration
WriteReplies ==
    /\ job = "replies" /\ pc = "r_replies_write"
    /\ replies_json' = ValidFile(replies_data)
    /\ i' = i + 1
    /\ pc' = "r_for"
    /\ UNCHANGED <<job, runs, run_kind, threads_json, progress_json, remote,
                   thread_ts_list, start_index, replies_data, cursor, response,
                   wait_time, run_base, collected, threadMem>>

\* line 158: open(PROGRESS_FILE, "w") truncates progress.json
OpenReset ==
    /\ job = "replies" /\ pc = "r_reset_open"
    /\ progress_json' = CorruptFile(0)
    /\ pc' = "r_reset_write"
    /\ UNCHANGED <<job, runs, run_kind, threads_json, replies_json, remote,
                   replyMem, cursor, response, wait_time, run_base, collected,
                   threadMem>>

\* lines 158-160: {"last_processed_index": 0} reaches progress.json
WriteReset ==
    /\ job = "replies" /\ pc = "r_reset_write"
    /\ progress_json' = ValidFile(0)
    /\ pc' = "done"
    /\ UNCHANGED <<job, runs, run_kind, threads_json, replies_json, remote,
                   replyMem, cursor, response, wait_time, run_base, collected,
                   threadMem>>

(* ---------------- ExportThreadWithoutReplies: the listing -------------- *)
\* conversations.history: message j of page p has reply_count > 0 (a
\* thread root), reply_count = 0, or no reply_count at all.  Slack lists
\* a channel newest first or, for a remote that answers so, oldest first.
HistoryKinds == {"thread", "zero", "none"}

HistoryTs(p, j, newest_first) ==
    IF newest_first THEN 100 - (10 * p + j) ELSE 10 * p + j

HistoryMessage(p, j, kind, newest_first) ==
    CASE kind = "thread" -> [ts |-> HistoryTs(p, j, newest_first), reply_count |-> 2]
      [] kind = "zero"   -> [ts |-> HistoryTs(p, j, newest_first), reply_count |-> 0]
      [] kind = "none"   -> [ts |-> HistoryTs(p, j, newest_first)]

HistoryPages(p, newest_first) ==
    UNION {{[j \in 1..n |-> HistoryMessage(p, j, ks[j], newest_first)] :
               ks \in [1..n -> HistoryKinds]} : n \in 0..MaxPageLen}

\* chat.getPermalink: the permalink of the message with this ts
NoPermalink == <<>>
PermalinkOf(ts) == <<"permalink", ts>>

HttpErrors == {Response(500, NoHeader, FALSE, "", <<>>, NoCursor)}

\* line 71: a thread-starting message
IsThreadRoot(m) == "reply_count" \in DOMAIN m /\ m.reply_count > 0

\* lines 77-86: the record appended to all_threads
ThreadRecord(m, permalink) ==
    [ts |-> m.ts, thread_ts |-> m.ts, reply_count |-> m.reply_count,
     thread_url |-> permalink]

\* lines 54, 129: int(response.headers.get('Retry-After', 10))
RetryAfterOrDefault(h) == IF h = NoHeader THEN FallbackWait ELSE ParseInt(h)

\* lines 22-43: fetch_only_thread_messages starts
FetchStart ==
    /\ job = "threads" /\ pc = "t_start"
    /\ all_threads' = <<>>
    /\ cursor' = NoCursor
    /\ pc' = "t_request"
    /\ UNCHANGED <<job, runs, run_kind, durable, remote, replyMem, response,
                   wait_time, run_base, collected, msg_idx, presp>>

\* lines 46-50: requests.get returns a page of the channel history
GetPage ==
    /\ job = "threads" /\ pc = "t_request"
    /\ \E page \in ServedPages(remote.history, cursor,
                               HistoryPages(cursor + 1, remote.newest_first)) :
          /\ response' = Response(200, NoHeader, TRUE, "", page.messages,
                                  page.next_cursor)
          /\ remote' = [remote EXCEPT !.history = Remember(@, cursor, page)]
    /\ pc' = "t_response"
    /\ UNCHANGED <<job, runs, run_kind, durable, replyMem, cursor, wait_time,
                   run_base, collected, threadMem>>

\* lines 46-50: requests.get returns a throttled, rejected or failed response
GetRejected ==
    /\ job = "threads" /\ pc = "t_request"
    /\ \E r \in Throttle429 \cup RateLimited200 \cup SoftErrors \cup HttpErrors :
          response' = r
    /\ pc' = "t_response"
    /\ UNCHANGED <<job, runs, run_kind, durable, remote, replyMem, cursor,
                   wait_time, run_base, collected, threadMem>>

\* lines 50, 100-102: requests.get raises; the except clause breaks
GetRaises ==
    /\ job = "threads" /\ pc = "t_request"
    /\ pc' = "t_return"
    /\ UNCHANGED <<job, runs, run_kind, durable, remote, replyMem, cursor,
                   response, wait_time, run_base, collected, threadMem>>

\* lines 53-57: HTTP 429: sleep Retry-After (or 10), then retry
THandle429 ==
    /\ job = "threads" /\ pc = "t_response"
    /\ response.status = 429
    /\ wait_time' = RetryAfterOrDefault(response.retry_after)
    /\ pc' = "t_sleep"
    /\ UNCHANGED <<job, runs, run_kind, durable, remote, replyMem, cursor,
                   response, run_base, collected, threadMem>>

\* lines 56-57: time.sleep returns, `continue` retries
TWakeUp ==
    /\ job = "threads" /\ pc = "t_sleep"
    /\ pc' = "t_request"
    /\ response' = NoResponse /\ wait_time' = 0
    /\ UNCHANGED <<job, runs, run_kind, durable, remote, replyMem, cursor,
                   run_base, collected, threadMem>>

\* lines 59, 100-102: raise_for_status raises on an error status: break
THandleHttpError ==
    /\ job = "threads" /\ pc = "t_response"
    /\ response.status # 429 /\ response.status >= 400
    /\ pc' = "t_return"
    /\ UNCHANGED <<job, runs, run_kind, durable, remote, replyMem, cursor,
                   response, wait_time, run_base, collected, threadMem>>

\* lines 62-64: ok is false: break
THandleSoftError ==
    /\ job = "threads" /\ pc = "t_response"
    /\ response.status < 400 /\ ~response.ok
    /\ pc' = "t_return"
    /\ UNCHANGED <<job, runs, run_kind, durable, remote, replyMem, cursor,
                   response, wait_time, run_base, collected, threadMem>>

\* lines 66-70: a page: iterate over its messages
TBeginPage ==
    /\ job = "threads" /\ pc = "t_response"
    /\ response.status < 400 /\ response.ok
    /\ msg_idx' = 1
    /\ pc' = "t_messages"
    /\ UNCHANGED <<job, runs, run_kind, durable, remote, replyMem, cursor,
                   response, wait_time, run_base, collected, all_threads, presp>>

\* lines 70-71: a message that starts no thread is skipped
TSkipMessage ==
    /\ job = "threads" /\ pc = "t_messages"
    /\ msg_idx <= Len(response.messages)
    /\ ~IsThreadRoot(response.messages[msg_idx])
    /\ msg_idx' = msg_idx + 1
    /\ UNCHANGED <<job, pc, runs, run_kind, durable, remote, replyMem, cursor,
                   response, wait_time, run_base, collected, all_threads, presp>>

\* lines 71-75: a thread root: get_permalink_for_message is called
TResolve ==
    /\ job = "threads" /\ pc = "t_messages"
    /\ msg_idx <= Len(response.messages)
    /\ IsThreadRoot(response.messages[msg_idx])
    /\ pc' = "p_request"
    /\ UNCHANGED <<job, runs, run_kind, durable, remote, replyMem, cursor,
                   response, wait_time, run_base, collected, threadMem>>

\* a listing that saves what it has collected after every page
TEndPageSaves ==
    /\ job = "threads" /\ pc = "t_messages"
    /\ msg_idx > Len(response.messages)
    /\ threads_json' = ValidFile(all_threads)
    /\ IF MorePages(response.next_cursor)
       THEN /\ cursor' = response.next_cursor
            /\ wait_time' = InterPageDelay
            /\ response' = NoResponse
            /\ pc' = "t_page_sleep"
       ELSE /\ cursor' = cursor
            /\ wait_time' = wait_time
            /\ response' = response
            /\ pc' = "t_return"
    /\ UNCHANGED <<job, runs, run_kind, progress_json, replies_json, remote,
                   replyMem, run_base, collected, threadMem>>

\* lines 91-98: after the last message: follow next_cursor or break
TEndPage ==
    /\ job = "threads" /\ pc = "t_messages"
    /\ msg_idx > Len(response.messages)
    /\ IF MorePages(response.next_cursor)
       THEN /\ cursor' = response.next_cursor
            /\ wait_time' = InterPageDelay
            /\ response' = NoResponse
            /\ pc' = "t_page_sleep"
       ELSE /\ cursor' = cursor
            /\ wait_time' = wait_time
            /\ response' = response
            /\ pc' = "t_return"
    /\ UNCHANGED <<job, runs, run_kind, durable, remote, replyMem,
                   run_base, collected, threadMem>>

\* line 98: time.sleep(1) returns; the loop requests the next page
TPageWakeUp ==
    /\ job = "threads" /\ pc = "t_page_sleep"
    /\ pc' = "t_request"
    /\ wait_time' = 0
    /\ UNCHANGED <<job, runs, run_kind, durable, remote, replyMem, cursor,
                   response, run_base, collected, threadMem>>

(* ------------------- get_permalink_for_message ------------------------ *)
\* records kept in the order the resolver calls complete, newest call first
AppendThreadFront(permalink) ==
    /\ all_threads' = <<ThreadRecord(response.messages[msg_idx], permalink)>>
                          \o all_threads
    /\ msg_idx' = msg_idx + 1
    /\ presp' = NoResponse
    /\ pc' = "t_messages"

\* a caller that drops the message whose permalink could not be resolved
AppendThreadDropsFailed(permalink) ==
    /\ all_threads' =
          IF permalink = NoPermalink THEN all_threads
          ELSE Append(all_threads,
                      ThreadRecord(response.messages[msg_idx], permalink))
    /\ msg_idx' = msg_idx + 1
    /\ presp' = NoResponse
    /\ pc' = "t_messages"

\* lines 77-86: the caller appends the record with the resolver's result
AppendThread(permalink) ==
    /\ all_threads' = Append(all_threads,
                             ThreadRecord(response.messages[msg_idx], permalink))
    /\ msg_idx' = msg_idx + 1
    /\ presp' = NoResponse
    /\ pc' = "t_messages"

\* line 125: requests.get returns
PGet ==
    /\ job = "threads" /\ pc = "p_request"
    /\ \E r \in Throttle429 \cup RateLimited200 \cup SoftErrors \cup HttpErrors
                \cup {Response(200, NoHeader, TRUE, "", <<>>, NoCursor)} :
          presp' = r
    /\ pc' = "p_response"
    /\ UNCHANGED <<job, runs, run_kind, durable, remote, replyMem, cursor,
                   response, wait_time, run_base, collected, all_threads,
                   msg_idx>>

\* lines 125, 143-145: requests.get raises: return ""
PRaises ==
    /\ job = "threads" /\ pc = "p_request"
    /\ AppendThread(NoPermalink)
    /\ UNCHANGED <<job, runs, run_kind, durable, remote, replyMem, cursor,
                   response, wait_time, run_base, collected>>

\* lines 128-132: HTTP 429: sleep Retry-After (or 10), then retry
PHandle429 ==
    /\ job = "threads" /\ pc = "p_response"
    /\ presp.status = 429
    /\ wait_time' = RetryAfterOrDefault(presp.retry_after)
    /\ pc' = "p_sleep"
    /\ UNCHANGED <<job, runs, run_kind, durable, remote, replyMem, cursor,
                   response, run_base, collected, threadMem>>

\* lines 131-132: time.sleep returns, `continue` retries
PWakeUp ==
    /\ job = "threads" /\ pc = "p_sleep"
    /\ pc' = "p_request"
    /\ presp' = NoResponse /\ wait_time' = 0
    /\ UNCHANGED <<job, runs, run_kind, durable, remote, replyMem, cursor,
                   response, run_base, collected, all_threads, msg_idx>>

\* lines 134-141, 143-145: the permalink, or "" on an error
PermalinkResult(r, ts) ==
    IF r.status < 400 /\ r.ok THEN PermalinkOf(ts) ELSE NoPermalink

PReturn ==
    /\ job = "threads" /\ pc = "p_response"
    /\ presp.status # 429
    /\ AppendThread(PermalinkResult(presp, response.messages[msg_idx].ts))
    /\ UNCHANGED <<job, runs, run_kind, durable, remote, replyMem, cursor,
                   response, wait_time, run_base, collected>>

(* ---------------- ExportThreadWithoutReplies.main --------------------- *)
\* lines 174, 197: open(filename, mode='w') truncates threads.json
OpenThreads ==
    /\ job = "threads" /\ pc = "t_return"
    /\ threads_json' = CorruptFile(<<>>)
    /\ response' = NoResponse
    /\ pc' = "t_write"
    /\ UNCHANGED <<job, runs, run_kind, progress_json, replies_json, remote,
                   replyMem, cursor, wait_time, run_base, collected,
                   threadMem>>

\* lines 174-177: the threads reach threads.json
WriteThreads ==
    /\ job = "threads" /\ pc = "t_write"
    /\ threads_json' = ValidFile(all_threads)
    /\ pc' = "done"
    /\ UNCHANGED <<job, runs, run_kind, progress_json, replies_json, remote,
                   replyMem, cursor, response, wait_time, run_base, collected,
                   threadMem>>

(* ------------------------- process lifetime --------------------------- *)
Running == pc \notin {"done", "killed", "crashed"}

\* the process is killed: its memory is gone, the files stay as they are
Kill ==
    /\ Running
    /\ pc' = "killed"
    /\ thread_ts_list' = <<>> /\ start_index' = 0 /\ replies_data' = <<>>
    /\ i' = 0 /\ cursor' = NoCursor /\ response' = NoResponse
    /\ wait_time' = 0 /\ all_threads' = <<>> /\ msg_idx' = 0
    /\ presp' = NoResponse
    /\ UNCHANGED <<job, runs, run_kind, durable, remote, run_base, collected>>

NextKind ==
    IF pc = "done" THEN "rerun"
    ELSE IF run_kind \in {"first", "resumed"} THEN "resumed"
    ELSE "rerun_resumed"

\* main is invoked again, after a completed, killed or crashed run
Restart ==
    /\ ~Running
    /\ runs < MaxRuns
    /\ runs' = runs + 1
    /\ run_kind' = NextKind
    /\ pc' = IF job = "replies" THEN "r_start" ELSE "t_start"
    /\ thread_ts_list' = <<>> /\ start_index' = 0 /\ replies_data' = <<>>
    /\ i' = 0 /\ cursor' = NoCursor /\ response' = NoResponse
    /\ wait_time' = 0 /\ all_threads' = <<>> /\ msg_idx' = 0
    /\ presp' = NoResponse
    /\ UNCHANGED <<job, durable, remote, run_base, collected>>

\* threads.json as a previous channel listing left it: position k holds the
\* thread root with ts k, or a record without a usable ts
WorkLists ==
    UNION {[1..n -> {TRUE, FALSE}] : n \in 0..MaxThreads}

WorkRecord(k, has_ts) ==
    [ts |-> IF has_ts THEN k ELSE NoTs, thread_ts |-> IF has_ts THEN k ELSE NoTs,
     reply_count |-> 1, thread_url |-> NoPermalink]

Init ==
    /\ job \in {"replies", "threads"}
    /\ pc = IF job = "replies" THEN "r_start" ELSE "t_start"
    /\ runs = 1
    /\ run_kind = "first"
    /\ IF job = "replies"
       THEN \E w \in WorkLists :
               threads_json = ValidFile([k \in 1..Len(w) |-> WorkRecord(k, w[k])])
       ELSE threads_json = AbsentFile(<<>>)
    /\ progress_json = AbsentFile(0)
    /\ replies_json = AbsentFile(<<>>)
    /\ \E nf \in BOOLEAN :
          remote = [replies |-> [t \in 1..MaxThreads |-> <<>>],
                    history |-> <<>>,
                    newest_first |-> IF job = "threads" THEN nf ELSE TRUE]
    /\ thread_ts_list = <<>> /\ start_index = 0 /\ replies_data = <<>>
    /\ i = 0 /\ cursor = NoCursor /\ response = NoResponse
    /\ wait_time = 0 /\ all_threads = <<>> /\ msg_idx = 0
    /\ presp = NoResponse
    /\ run_base = <<>>
    /\ collected = [u \in 1..MaxThreads |-> <<>>]

Next ==
    \/ LoadState \/ ForNext \/ ForEnd
    \/ PostPage \/ PostRejected \/ PostRaises
    \/ Handle429 \/ HandleRateLimited \/ HandleRateLimitedNoHeader
    \/ HandleSoftError \/ HandlePage \/ WakeUp
    \/ OpenProgress \/ WriteProgress \/ OpenReplies \/ WriteReplies
    \/ OpenReset \/ WriteReset
    \/ FetchStart \/ GetPage \/ GetRejected \/ GetRaises
    \/ THandle429 \/ TWakeUp \/ THandleHttpError \/ THandleSoftError
    \/ TBeginPage \/ TSkipMessage \/ TResolve \/ TEndPage \/ TPageWakeUp
    \/ PGet \/ PRaises \/ PHandle429 \/ PWakeUp \/ PReturn
    \/ OpenThreads \/ WriteThreads
    \/ Kill \/ Restart

Spec == Init /\ [][Next]_vars

\* One uninterrupted run of either job, over a work list of at most one
\* thread: the pagination loops by themselves.
InitListing == Init /\ Len(threads_json.data) <= 1

NextListing ==
    \/ LoadState \/ ForNext \/ ForEnd
    \/ PostPage \/ PostRejected \/ PostRaises
    \/ Handle429 \/ HandleRateLimited \/ HandleRateLimitedNoHeader
    \/ HandleSoftError \/ HandlePage \/ WakeUp
    \/ OpenProgress \/ WriteProgress \/ OpenReplies \/ WriteReplies
    \/ OpenReset \/ WriteReset
    \/ FetchStart \/ GetPage \/ GetRejected \/ GetRaises
    \/ THandle429 \/ TWakeUp \/ THandleHttpError \/ THandleSoftError
    \/ TBeginPage \/ TSkipMessage \/ TResolve \/ TEndPage \/ TPageWakeUp
    \/ PGet \/ PRaises \/ PHandle429 \/ PWakeUp \/ PReturn
    \/ OpenThreads \/ WriteThreads

SpecListing == InitListing /\ [][NextListing]_vars

\* The same run under the scheduling of one sequential process: whenever
\* a statement can run, one eventually does (requests return or raise, and
\* time.sleep returns).
SpecLive == InitListing /\ [][NextListing]_vars /\ WF_vars(NextListing)

\* The reply job over a work list of at most one thread, with the process
\* killed and main invoked again.
InitResume == Init /\ job = "replies" /\ Len(threads_json.data) <= 1

NextResume ==
    \/ LoadState \/ ForNext \/ ForEnd
    \/ PostPage \/ PostRejected \/ PostRaises
    \/ Handle429 \/ HandleRateLimited \/ HandleRateLimitedNoHeader
    \/ HandleSoftError \/ HandlePage \/ WakeUp
    \/ OpenProgress \/ WriteProgress \/ OpenReplies \/ WriteReplies
    \/ OpenReset \/ WriteReset
    \/ Kill \/ Restart

SpecResume == InitResume /\ [][NextResume]_vars

\* One run of the channel listing that can be killed at any statement.
InitChannel == Init /\ job = "threads"

NextChannel ==
    \/ FetchStart \/ GetPage \/ GetRejected \/ GetRaises
    \/ THandle429 \/ TWakeUp \/ THandleHttpError \/ THandleSoftError
    \/ TBeginPage \/ TSkipMessage \/ TResolve \/ TEndPage \/ TPageWakeUp
    \/ PGet \/ PRaises \/ PHandle429 \/ PWakeUp \/ PReturn
    \/ OpenThreads \/ WriteThreads
    \/ Kill

SpecChannel == InitChannel /\ [][NextChannel]_vars

(* ======================= properties of the jobs ======================== *)
\* the work list main reads from threads.json
WorkList == ReadThreadTs(threads_json.data)

\* what the last fetches of units a..b collected, in work-list order
UnitResults(a, b) == Concat([k \in 1..(IF b >= a THEN b - a + 1 ELSE 0) |->
                                collected[a + k - 1]])

\* a reply, as the specification defines it
SpecReply(m) == m.thread_ts # NoTs /\ m.ts # m.thread_ts
\* a thread root, as the specification defines it
SpecRoot(m) == "reply_count" \in DOMAIN m /\ m.reply_count > 0

\* the filtered items of pages 1..n of a chain, in page order
ExpectedReplies(chain, n) ==
    Concat([p \in 1..n |-> SelectSeq(chain[p].messages, SpecReply)])
ExpectedRoots(chain, n) ==
    Concat([p \in 1..n |-> SelectSeq(chain[p].messages, SpecRoot)])

\* the first n pages of a chain all carry a next_cursor
AllContinue(chain, n) == \A p \in 1..n : chain[p].next_cursor # NoCursor

\* the ts of the collected thread records, in order
TsOf(records) == [k \in 1..Len(records) |-> records[k].ts]

\* a response the specification classifies as throttled
IsThrottled(r) ==
    r.status = 429 \/ (r.status = 200 /\ ~r.ok /\ r.error = "ratelimited")

\* C1: resume correctness.  When a run that resumed an interrupted run
\* completes, replies.json holds the results of every unit of the work
\* list exactly once, in work-list order.
C1_ResumeHoldsEveryUnitOnce ==
    (job = "replies" /\ pc = "done" /\ run_kind = "resumed")
        => LoadReplies(replies_json) = UnitResults(1, Len(WorkList))

\* C2: in every durable state of the first export, the index stored in
\* progress.json covers only units whose replies are in replies.json.
C2_MarkerWithinSnapshot ==
    (job = "replies" /\ run_kind \in {"first", "resumed"}
        /\ progress_json.st = "valid")
        => IsPrefix(UnitResults(1, progress_json.data),
                    LoadReplies(replies_json))

\* C3: idempotence.  A run that follows a completed run, against the same
\* threads.json and remote state, appends to replies.json no record that
\* replies.json already held.
C3_RerunAppendsNoDuplicate ==
    (job = "replies" /\ pc = "done" /\ run_kind = "rerun")
        => LET d == LoadReplies(replies_json)
           IN \A k \in (Len(run_base) + 1)..Len(d) : d[k] \notin Range(run_base)

\* C4: the collected result is the concatenation, in page order, of the
\* filtered items of the pages served, and the pagination loop goes on
\* exactly while the responses carry a next_cursor.
C4_CollectsFilteredPagesInOrder ==
    /\ (job = "replies" /\ pc \in {"r_request", "r_response", "r_sleep"})
          => /\ cursor <= Len(remote.replies[t_ts])
             /\ AllContinue(remote.replies[t_ts], cursor)
             /\ collected[i + 1] = ExpectedReplies(remote.replies[t_ts], cursor)
             /\ replies_data = run_base \o UnitResults(start_index + 1, i + 1)
    /\ (job = "replies" /\ pc = "r_progress_open" /\ response.ok)
          => /\ Len(remote.replies[t_ts]) = cursor + 1
             /\ AllContinue(remote.replies[t_ts], cursor)
             /\ remote.replies[t_ts][cursor + 1].next_cursor = NoCursor
             /\ collected[i + 1] =
                    ExpectedReplies(remote.replies[t_ts], cursor + 1)
             /\ replies_data = run_base \o UnitResults(start_index + 1, i + 1)
    /\ (job = "threads" /\ pc \in {"t_request", "t_response", "t_sleep"})
          => /\ cursor <= Len(remote.history)
             /\ AllContinue(remote.history, cursor)
             /\ TsOf(all_threads) = TsOf(ExpectedRoots(remote.history, cursor))
    /\ (job = "threads" /\ pc = "t_return" /\ response.ok)
          => /\ Len(remote.history) = cursor + 1
             /\ AllContinue(remote.history, cursor)
             /\ remote.history[cursor + 1].next_cursor = NoCursor
             /\ TsOf(all_threads) =
                    TsOf(ExpectedRoots(remote.history, cursor + 1))

\* a reply listing of two pages has ended, with a reply from each page
C4_Witness ==
    /\ job = "replies" /\ pc = "r_progress_open" /\ response.ok
    /\ cursor = 1 /\ Len(collected[i + 1]) = 2

\* C5: every throttled response is answered by a sleep of Retry-After, or
\* of 10 seconds without the header, and a retry; it never ends a
\* pagination loop or a resolver call.
C5_ThrottleAlwaysRetried ==
    /\ pc \in {"r_sleep", "t_sleep"}
          => wait_time = RetryAfterOrDefault(response.retry_after)
    /\ pc = "p_sleep" => wait_time = RetryAfterOrDefault(presp.retry_after)
    /\ pc \in {"r_progress_open", "t_return"} => ~IsThrottled(response)

\* C6: a throttled response that carries Retry-After leaves the pagination
\* where it was: the loop sleeps at least Retry-After with the cursor and
\* the accumulated items as they were, and never ends on such a response.
C6_ThrottleKeepsPagination ==
    /\ (job = "replies" /\ pc = "r_sleep")
          => /\ wait_time >= ParseInt(response.retry_after)
             /\ collected[i + 1] = ExpectedReplies(remote.replies[t_ts], cursor)
    /\ (job = "threads" /\ pc = "t_sleep" /\ response.retry_after # NoHeader)
          => /\ wait_time >= ParseInt(response.retry_after)
             /\ TsOf(all_threads) = TsOf(ExpectedRoots(remote.history, cursor))
    /\ (pc \in {"r_progress_open", "t_return"}
          /\ response.retry_after # NoHeader)
          => ~IsThrottled(response)

\* C7: a soft error or a transport failure abandons one unit only: the
\* reply job ends by itself only after the last unit of the work list.
C7_JobEndsAfterLastUnit ==
    (job = "replies" /\ pc \in {"done", "crashed"})
        => i >= Len(thread_ts_list)

\* C8: whatever a listing collected before a soft error or a transport
\* failure cut it short is in the durable result when the job has ended.
C8_PartialResultsPersisted ==
    /\ (job = "replies" /\ run_kind = "first" /\ pc \in {"done", "crashed"})
          => \A u \in 1..Len(thread_ts_list) :
                Range(collected[u]) \subseteq Range(LoadReplies(replies_json))
    /\ (job = "threads" /\ run_kind = "first" /\ pc = "done")
          => threads_json = ValidFile(all_threads)

\* C9: with an empty work list the completed job has written an empty
\* result set to replies.json and left 0 in progress.json, and has made
\* no request.
C9_EmptyWorkListWritesEmptyResult ==
    (job = "replies" /\ run_kind = "first" /\ pc = "done" /\ WorkList = <<>>)
        => /\ replies_json = ValidFile(<<>>)
           /\ progress_json = ValidFile(0)
           /\ \A t \in 1..MaxThreads : remote.replies[t] = <<>>

AscendingTs(records) ==
    \A a, b \in 1..Len(records) : a < b => records[a].ts <= records[b].ts

\* C12: what fetch_only_thread_messages returns, and what main writes to
\* threads.json, is ordered by ascending ts, in whatever order the remote
\* served the pages and the items of a page.
C12_ListingAscendingByTs ==
    /\ (job = "threads" /\ pc = "t_return") => AscendingTs(all_threads)
    /\ (job = "threads" /\ pc = "done") => AscendingTs(threads_json.data)

\* the thread roots the listing has passed so far, in listing order: those
\* of the pages handled and, inside a page, those before msg_idx
RootsPassed ==
    IF pc \in {"t_messages", "p_request", "p_response", "p_sleep"}
    THEN ExpectedRoots(remote.history, cursor)
            \o SelectSeq(SubSeq(response.messages, 1, msg_idx - 1), SpecRoot)
    ELSE IF pc = "t_return" /\ response.ok
         THEN ExpectedRoots(remote.history, cursor + 1)
         ELSE ExpectedRoots(remote.history, cursor)

\* C13: enrichment keeps positions and identities.  The thread records are
\* in the order of the thread roots in the listing, record k is the record
\* of root k, and its thread_url is what the resolver returned for that
\* root's own ts (its permalink, or "" after a failure), however often the
\* resolver was throttled.
C13_EnrichmentKeepsOrderAndIdentity ==
    (job = "threads" /\ pc \in {"t_request", "t_response", "t_sleep",
                                "t_page_sleep", "t_messages", "p_request",
                                "p_response", "p_sleep", "t_return"})
        => /\ Len(all_threads) = Len(RootsPassed)
           /\ \A k \in 1..Len(all_threads) :
                 /\ all_threads[k].ts = RootsPassed[k].ts
                 /\ all_threads[k].thread_ts = RootsPassed[k].ts
                 /\ all_threads[k].reply_count = RootsPassed[k].reply_count
                 /\ all_threads[k].thread_url
                        \in {NoPermalink, PermalinkOf(RootsPassed[k].ts)}

\* the listing of two pages has returned two records, each with the
\* permalink of its own ts
C13_Witness ==
    /\ job = "threads" /\ pc = "t_return" /\ Len(all_threads) = 2
    /\ \A k \in 1..2 : all_threads[k].thread_url = PermalinkOf(all_threads[k].ts)
    /\ all_threads[1].ts # all_threads[2].ts

\* a resolver response that is neither a permalink nor an HTTP 429
ResolverFailed(r) == r.status # 429 /\ ~(r.status < 400 /\ r.ok)

\* C14: when the permalink resolver fails for a thread root (ok = false, an
\* HTTP error status, or a transport failure), the step that ends the
\* resolver call appends that root's record with thread_url "", leaves the
\* records collected before it as they are, and leaves the listing at the
\* next message of the same page with the page's next_cursor still to be
\* followed.
C14_ResolverFailureBlanksOneUrl ==
    [][(/\ job = "threads"
        /\ \/ pc = "p_response" /\ ResolverFailed(presp)
           \/ pc = "p_request" /\ pc' # "p_response"
        /\ pc' # "killed")
          => /\ all_threads' =
                   Append(all_threads,
                          ThreadRecord(response.messages[msg_idx], NoPermalink))
             /\ msg_idx' = msg_idx + 1
             /\ pc' = "t_messages"
             /\ response' = response /\ cursor' = cursor]_vars

\* the resolver failed for the thread root of page 1; the listing went on
\* to page 2 and returned both records, the second with its own permalink
C14_Witness ==
    /\ job = "threads" /\ pc = "t_return" /\ Len(all_threads) = 2
    /\ all_threads[1].thread_url = NoPermalink
    /\ all_threads[2].thread_url = PermalinkOf(all_threads[2].ts)

\* C15: a channel listing that follows a completed one starts above the
\* newest ts the completed one saw: while threads.json still holds the
\* previous result, nothing the new run has collected is at or before the
\* ts of a record of that result.
C15_SecondRunCollectsOnlyNewer ==
    (job = "threads" /\ run_kind = "rerun" /\ Running /\ pc # "t_write")
        => \A r \in Range(all_threads) :
              \A q \in Range(threads_json.data) : r.ts > q.ts

\* C16: every step by which a listing, of the channel history or of a
\* thread's replies, moves on to the next page of the same listing starts
\* the fixed inter-page delay: the next request is not issued before that
\* sleep has returned.
C16_DelayBetweenPages ==
    [][(cursor' # cursor /\ cursor' # NoCursor)
          => /\ wait_time' = InterPageDelay
             /\ pc' \notin {"r_request", "t_request"}]_vars

\* a response on which the reply job gives the unit up: ok is false and the
\* loop does not sleep and retry
Abandons(r) ==
    /\ ~(r.status = 429 /\ r.retry_after # NoHeader)
    /\ ~r.ok
    /\ (r.error # "ratelimited" \/ r.retry_after = NoHeader)

SleepsOnThrottle == pc \in {"r_sleep", "t_sleep", "p_sleep"}

\* C18: termination.  Every cursor chain of the remote is finite; if the
\* remote throttles only finitely often (from some point on the job never
\* sleeps on a throttled response again), the run ends: the reply job over
\* its finite work list, and the channel listing with its resolver calls.
\* Only a throttled response sends a loop back to the request it has just
\* made: after any other response the loop ends, moves to another cursor,
\* or, in the resolver, returns.
C18_TerminatesUnlessThrottledForever ==
    /\ (<>[](~SleepsOnThrottle)) => <>(pc \in {"done", "crashed"})
    /\ [][/\ pc = "r_response"
             => /\ pc' = "r_sleep" => IsThrottled(response)
                /\ pc' = "r_request" => cursor' # cursor
          /\ pc = "t_response"
             => /\ pc' = "t_sleep" => IsThrottled(response)
                /\ pc' # "t_request"
          /\ pc = "t_messages" /\ pc' = "t_page_sleep" => cursor' # cursor
          /\ pc = "p_response"
             => /\ pc' = "p_sleep" => IsThrottled(presp)
                /\ pc' # "p_request"
          /\ (pc \in {"r_sleep", "t_sleep", "p_sleep"} /\ pc' # "killed")
             => (cursor' = cursor /\ i' = i /\ msg_idx' = msg_idx)]_vars

\* a reply listing was throttled on its second page, retried, and the job
\* has completed with the replies of both pages
C18_Witness ==
    /\ job = "replies" /\ pc = "done" /\ thread_ts_list = <<1>>
    /\ Len(remote.replies[1]) = 2 /\ Len(replies_data) = 2

\* the channel job is inside fetch_only_thread_messages
Listing ==
    pc \in {"t_start", "t_request", "t_response", "t_sleep", "t_page_sleep",
            "t_messages", "p_request", "p_response", "p_sleep"}

\* C19: the channel listing writes nothing durable while it collects.  No
\* step taken inside fetch_only_thread_messages, a kill included, changes a
\* file; threads.json changes only in the one open-and-dump that follows
\* the return, and what the dump writes is the whole returned list.
C19_ListingWritesOnlyAtEnd ==
    [][job = "threads"
          => /\ Listing => durable' = durable
             /\ threads_json' # threads_json
                   => \/ pc = "t_return" /\ pc' = "t_write"
                      \/ /\ pc = "t_write" /\ pc' = "done"
                         /\ threads_json' = ValidFile(all_threads)
             /\ pc = "t_write" => pc' \in {"done", "killed"}]_vars

\* the first run was killed while it listed page 2, after it had collected
\* the thread root of page 1: there is still no threads.json
C19_Witness ==
    /\ job = "threads" /\ pc = "killed" /\ run_kind = "first"
    /\ threads_json.st = "absent"
    /\ Len(remote.history) = 2
    /\ SelectSeq(remote.history[1].messages, SpecRoot) # <<>>
====
